---------------------------- MODULE Spec2Model ----------------------------
(***************************************************************************)
(* Chat streaming translation engine (chat service):                       *)
(*   wsMessageIterator   - socket callbacks bridged to a pulled sequence   *)
(*   streamChatGenerator - event-stream sink                               *)
(*   nonStreamChat       - aggregate sink                                  *)
(* One session = one socket + one consumption loop.  The session runs on   *)
(* one of the two paths, chosen at construction.                           *)
(***************************************************************************)
EXTENDS Integers, Sequences, FiniteSets, TLC

\* Number of socket callbacks (message / close / error) the backend fires in
\* one session.
MaxEvents == 3

\* ------------------------------------------------------------------------
\* Strings are sequences of characters.
\* ------------------------------------------------------------------------

\* Content strings the backend puts in a buffer of each segment type ("" is the
\* empty content, which the code tests in the same statement for both types).
ContentsOf(t) ==
    IF t = "chat"
    THEN { <<>>, <<"a">>, <<"a", "b">>, <<"a", "b", "b">>, <<"b">> }
    ELSE { <<"a">>, <<"a", "b">> }

\* String.prototype.startsWith
StartsWith(s, p) == Len(p) <= Len(s) /\ SubSeq(s, 1, Len(p)) = p

\* String.prototype.slice(n) for 0 <= n
Slice(s, n) == IF n >= Len(s) THEN <<>> ELSE SubSeq(s, n + 1, Len(s))

OpenMarker  == << "<think>" >>
CloseMarker == << "</think>" >>
\* `错误: ${e}` : the text of the in-band error frame
ErrorText   == << "error" >>

Types  == {"chat", "thinking"}
NoType == "null"

\* ------------------------------------------------------------------------
\* Socket frames.  A frame is JSON text; JSON.parse either throws or gives
\* the decoded value.  type = "malformed" is a frame JSON.parse rejects at
\* the outer layer, btype = "malformed" a buffer it rejects at the nested
\* layer.
\* ------------------------------------------------------------------------
Frame(t, bt, c, ip) == [type |-> t, btype |-> bt, content |-> c, inProgress |-> ip]

UpdateFrames == UNION { { Frame("update", bt, c, FALSE) : c \in ContentsOf(bt) } :
                          bt \in {"chat", "thinking"} }
                  \cup { Frame("update", "malformed", <<>>, FALSE),
                         Frame("update", "other", <<>>, FALSE) }
StateFrames  == { Frame("state", "-", <<>>, ip) : ip \in BOOLEAN }
Frames       == UpdateFrames \cup StateFrames
                  \cup { Frame("malformed", "-", <<>>, FALSE) }

NoData == Frame("-", "-", <<>>, FALSE)

\* Items of the iterator's queue
MessageEvent(d) == [type |-> "message", data |-> d]
CloseEvent      == [type |-> "close", data |-> NoData]
ErrorEvent      == [type |-> "error", data |-> NoData]

\* ------------------------------------------------------------------------
\* createSSEChunk and the sentinel
\* ------------------------------------------------------------------------
createSSEChunk(content, finishReason) ==
    [kind |-> "chunk", content |-> content, finish |-> finishReason]

DoneSentinel == [kind |-> "done", content |-> <<>>, finish |-> "null"]

\* ------------------------------------------------------------------------
\* Per-session consumption state (the locals of the two sinks)
\* ------------------------------------------------------------------------
InitSink == [ receivedUpdate    |-> FALSE,
              lastBufferType    |-> NoType,
              inThinkingBlock   |-> FALSE,
              modeByType        |-> [t \in Types |-> "none"],
              prevContentByType |-> [t \in Types |-> <<>>],
              emitted           |-> <<>>,
              brk               |-> FALSE ]

\* Variant: in snapshot mode the whole content is sent again.
StreamReconcile_NoSlice(mode0, prev, content) ==
    LET mode    == IF mode0 = "none" /\ prev # <<>>
                   THEN (IF StartsWith(content, prev) THEN "snapshot" ELSE "delta")
                   ELSE mode0
        delta   == content
        newPrev == IF mode = "snapshot" THEN content
                   ELSE IF mode = "delta" THEN prev \o content
                   ELSE content
    IN  [mode |-> mode, delta |-> delta, prev |-> newPrev]

\* Variant: the mode is decided anew at every update.
StreamReconcile_NotSticky(mode0, prev, content) ==
    LET mode    == IF prev # <<>>
                   THEN (IF StartsWith(content, prev) THEN "snapshot" ELSE "delta")
                   ELSE mode0
        delta   == IF mode = "snapshot" THEN Slice(content, Len(prev)) ELSE content
        newPrev == IF mode = "snapshot" THEN content
                   ELSE IF mode = "delta" THEN prev \o content
                   ELSE content
    IN  [mode |-> mode, delta |-> delta, prev |-> newPrev]

\* streamChatGenerator: mode detection and incremental text of one non-empty
\* content (prev is prevContentByType[bufferType] ?? "", mode0 is
\* modeByType[bufferType], "none" when unset).
StreamReconcile(mode0, prev, content) ==
    LET mode    == IF mode0 = "none" /\ prev # <<>>
                   THEN (IF StartsWith(content, prev) THEN "snapshot" ELSE "delta")
                   ELSE mode0
        delta   == IF mode = "snapshot" THEN Slice(content, Len(prev)) ELSE content
        newPrev == IF mode = "snapshot" THEN content
                   ELSE IF mode = "delta" THEN prev \o content
                   ELSE content
    IN  [mode |-> mode, delta |-> delta, prev |-> newPrev]

\* Variant: a type change opens a thinking block but never closes one.
StreamContent_NoCloseOnSwitch(s, bufferType, content) ==
    LET changed == bufferType # s.lastBufferType
        openIt  == changed /\ bufferType = "thinking"
        markers == IF openIt THEN <<OpenMarker>> ELSE <<>>
        inThink == IF openIt THEN TRUE ELSE s.inThinkingBlock
        lastT   == IF changed THEN bufferType ELSE s.lastBufferType
        r       == StreamReconcile(s.modeByType[bufferType],
                                   s.prevContentByType[bufferType], content)
    IN  [ s EXCEPT !.lastBufferType = lastT,
                   !.inThinkingBlock = inThink,
                   !.modeByType[bufferType] = r.mode,
                   !.prevContentByType[bufferType] = r.prev,
                   !.emitted = markers \o (IF r.delta # <<>> THEN <<r.delta>> ELSE <<>>) ]

\* streamChatGenerator: the body of `if (content)`; emitted is the sequence of
\* frame contents yielded while handling the event.
StreamContent(s, bufferType, content) ==
    LET changed == bufferType # s.lastBufferType
        closeIt == changed /\ s.inThinkingBlock
        openIt  == changed /\ bufferType = "thinking"
        markers == (IF closeIt THEN <<CloseMarker>> ELSE <<>>)
                     \o (IF openIt THEN <<OpenMarker>> ELSE <<>>)
        inThink == IF openIt THEN TRUE
                   ELSE IF closeIt THEN FALSE ELSE s.inThinkingBlock
        lastT   == IF changed THEN bufferType ELSE s.lastBufferType
        r       == StreamReconcile(s.modeByType[bufferType],
                                   s.prevContentByType[bufferType], content)
    IN  [ s EXCEPT !.lastBufferType = lastT,
                   !.inThinkingBlock = inThink,
                   !.modeByType[bufferType] = r.mode,
                   !.prevContentByType[bufferType] = r.prev,
                   !.emitted = markers \o (IF r.delta # <<>> THEN <<r.delta>> ELSE <<>>) ]

\* Variant: the body of `if (content)` runs for an empty content too.
StreamOnMessage_NoContentGuard(s0, data) ==
    LET s == [s0 EXCEPT !.emitted = <<>>] IN
    IF data.type = "malformed" THEN s
    ELSE IF data.type = "update" THEN
        LET s1 == [s EXCEPT !.receivedUpdate = TRUE] IN
        IF data.btype \in Types
        THEN StreamContent(s1, data.btype, data.content)
        ELSE s1
    ELSE IF data.type = "state" THEN
        IF ~data.inProgress /\ s.receivedUpdate
        THEN [ s EXCEPT !.emitted = IF s.inThinkingBlock THEN <<CloseMarker>> ELSE <<>>,
                        !.inThinkingBlock = FALSE,
                        !.brk = TRUE ]
        ELSE s
    ELSE s

\* Variant: only an update that carries content sets receivedUpdate.
StreamOnMessage_ContentArms(s0, data) ==
    LET s == [s0 EXCEPT !.emitted = <<>>] IN
    IF data.type = "malformed" THEN s
    ELSE IF data.type = "update" THEN
        IF data.btype \in Types /\ data.content # <<>>
        THEN StreamContent([s EXCEPT !.receivedUpdate = TRUE], data.btype, data.content)
        ELSE s
    ELSE IF data.type = "state" THEN
        IF ~data.inProgress /\ s.receivedUpdate
        THEN [ s EXCEPT !.emitted = IF s.inThinkingBlock THEN <<CloseMarker>> ELSE <<>>,
                        !.inThinkingBlock = FALSE,
                        !.brk = TRUE ]
        ELSE s
    ELSE s

\* streamChatGenerator: one pass of the for-await body on a message event
StreamOnMessage(s0, data) ==
    LET s == [s0 EXCEPT !.emitted = <<>>] IN
    IF data.type = "malformed" THEN s
    ELSE IF data.type = "update" THEN
        LET s1 == [s EXCEPT !.receivedUpdate = TRUE] IN
        IF data.btype \in Types /\ data.content # <<>>
        THEN StreamContent(s1, data.btype, data.content)
        ELSE s1
    ELSE IF data.type = "state" THEN
        IF ~data.inProgress /\ s.receivedUpdate
        THEN [ s EXCEPT !.emitted = IF s.inThinkingBlock THEN <<CloseMarker>> ELSE <<>>,
                        !.inThinkingBlock = FALSE,
                        !.brk = TRUE ]
        ELSE s
    ELSE s


\* Variant: in snapshot mode the whole content is appended again.
NonStreamReconcile_NoSlice(mode0, prev, content) ==
    LET mode    == IF mode0 = "none" /\ prev # <<>>
                   THEN (IF StartsWith(content, prev) THEN "snapshot" ELSE "delta")
                   ELSE mode0
        delta   == content
        newPrev == IF mode = "snapshot" THEN content
                   ELSE IF mode = "delta" THEN prev \o content
                   ELSE content
    IN  [mode |-> mode, delta |-> delta, prev |-> newPrev]

\* Variant: the mode is decided anew at every update.
NonStreamReconcile_NotSticky(mode0, prev, content) ==
    LET mode    == IF prev # <<>>
                   THEN (IF StartsWith(content, prev) THEN "snapshot" ELSE "delta")
                   ELSE mode0
        delta   == IF mode = "snapshot" THEN Slice(content, Len(prev)) ELSE content
        newPrev == IF mode = "snapshot" THEN content
                   ELSE IF mode = "delta" THEN prev \o content
                   ELSE content
    IN  [mode |-> mode, delta |-> delta, prev |-> newPrev]

\* nonStreamChat: mode detection and incremental text of one non-empty content.
NonStreamReconcile(mode0, prev, content) ==
    LET mode    == IF mode0 = "none" /\ prev # <<>>
                   THEN (IF StartsWith(content, prev) THEN "snapshot" ELSE "delta")
                   ELSE mode0
        delta   == IF mode = "snapshot" THEN Slice(content, Len(prev)) ELSE content
        newPrev == IF mode = "snapshot" THEN content
                   ELSE IF mode = "delta" THEN prev \o content
                   ELSE content
    IN  [mode |-> mode, delta |-> delta, prev |-> newPrev]

\* nonStreamChat: the body of `if (content)`; emitted is the text appended to
\* fullContent while handling the event.
NonStreamContent(s, bufferType, content) ==
    LET changed == bufferType # s.lastBufferType
        closeIt == changed /\ s.inThinkingBlock
        openIt  == changed /\ bufferType = "thinking"
        text1   == IF closeIt THEN CloseMarker ELSE <<>>
        text2   == IF openIt THEN text1 \o OpenMarker ELSE text1
        inThink == IF openIt THEN TRUE
                   ELSE IF closeIt THEN FALSE ELSE s.inThinkingBlock
        lastT   == IF changed THEN bufferType ELSE s.lastBufferType
        r       == NonStreamReconcile(s.modeByType[bufferType],
                                      s.prevContentByType[bufferType], content)
    IN  [ s EXCEPT !.lastBufferType = lastT,
                   !.inThinkingBlock = inThink,
                   !.modeByType[bufferType] = r.mode,
                   !.prevContentByType[bufferType] = r.prev,
                   !.emitted = text2 \o r.delta ]

\* Variant: receivedUpdate is set before the message is parsed, so also for a
\* message that is not JSON.
NonStreamOnMessage_FlagFirst(s0, data) ==
    LET s == [s0 EXCEPT !.emitted = <<>>] IN
    IF data.type = "malformed" THEN [s EXCEPT !.receivedUpdate = TRUE]
    ELSE IF data.type = "update" THEN
        LET s1 == [s EXCEPT !.receivedUpdate = TRUE] IN
        IF data.btype \in Types /\ data.content # <<>>
        THEN NonStreamContent(s1, data.btype, data.content)
        ELSE s1
    ELSE IF data.type = "state" THEN
        IF ~data.inProgress /\ s.receivedUpdate
        THEN [ s EXCEPT !.emitted = IF s.inThinkingBlock THEN CloseMarker ELSE <<>>,
                        !.inThinkingBlock = FALSE,
                        !.brk = TRUE ]
        ELSE s
    ELSE s

\* Variant: a state event with inProgress=false ends the session whether or
\* not an update was received.
NonStreamOnMessage_NoGuard(s0, data) ==
    LET s == [s0 EXCEPT !.emitted = <<>>] IN
    IF data.type = "malformed" THEN s
    ELSE IF data.type = "update" THEN
        LET s1 == [s EXCEPT !.receivedUpdate = TRUE] IN
        IF data.btype \in Types /\ data.content # <<>>
        THEN NonStreamContent(s1, data.btype, data.content)
        ELSE s1
    ELSE IF data.type = "state" THEN
        IF ~data.inProgress
        THEN [ s EXCEPT !.emitted = IF s.inThinkingBlock THEN CloseMarker ELSE <<>>,
                        !.inThinkingBlock = FALSE,
                        !.brk = TRUE ]
        ELSE s
    ELSE s

\* nonStreamChat: one pass of the for-await body on a message event
NonStreamOnMessage(s0, data) ==
    LET s == [s0 EXCEPT !.emitted = <<>>] IN
    IF data.type = "malformed" THEN s
    ELSE IF data.type = "update" THEN
        LET s1 == [s EXCEPT !.receivedUpdate = TRUE] IN
        IF data.btype \in Types /\ data.content # <<>>
        THEN NonStreamContent(s1, data.btype, data.content)
        ELSE s1
    ELSE IF data.type = "state" THEN
        IF ~data.inProgress
        THEN IF s.receivedUpdate
             THEN [ s EXCEPT !.emitted = IF s.inThinkingBlock THEN CloseMarker ELSE <<>>,
                             !.inThinkingBlock = FALSE,
                             !.brk = TRUE ]
             ELSE s
        ELSE s
    ELSE s

\* ------------------------------------------------------------------------
\* Request headers.  A header name is a sequence of name parts, so that a
\* prefix test is a test on the parts ("openai-beta" is <<"openai-", "beta">>).
\* ------------------------------------------------------------------------

\* String.prototype.toLowerCase on one name part
ToLowerPart(p) ==
    CASE p = "Authorization" -> "authorization"
      [] p = "Content-Type"  -> "content-type"
      [] p = "Origin"        -> "origin"
      [] p = "Referer"       -> "referer"
      [] OTHER               -> p

ToLowerName(n) == [i \in 1..Len(n) |-> ToLowerPart(n[i])]

ALLOWED_HEADER_NAMES ==
    { <<"authorization">>, <<"content-type">>, <<"accept">>,
      <<"openai-", "organization">>, <<"openai-", "project">>,
      <<"idempotency-key">>, <<"openai-", "beta">>, <<"x-request-id">>,
      <<"user-agent">>, <<"accept-encoding">>, <<"accept-language">>,
      <<"content-length">> }

ALLOWED_HEADER_PREFIXES == { <<"openai-">>, <<"x-openai-">> }

\* Variant: only the fixed names are allowed, the prefixes are not consulted.
isAllowedHeader_NoPrefix(headerName) ==
    ToLowerName(headerName) \in ALLOWED_HEADER_NAMES

isAllowedHeader(headerName) ==
    LET nameLower == ToLowerName(headerName)
    IN  \/ nameLower \in ALLOWED_HEADER_NAMES
        \/ \E prefix \in ALLOWED_HEADER_PREFIXES : StartsWith(nameLower, prefix)

\* obj[k] = v on an object kept as its entries in insertion order (keys are
\* case-sensitive): an existing key keeps its place and takes the new value.
ObjSet(obj, k, v) ==
    IF \E i \in 1..Len(obj) : obj[i].name = k
    THEN [i \in 1..Len(obj) |-> IF obj[i].name = k THEN [name |-> k, value |-> v]
                                                  ELSE obj[i]]
    ELSE Append(obj, [name |-> k, value |-> v])

\* The server-mandated headers of the trigger call, in source order
MandatoryHeaders ==
    << [name |-> <<"Authorization">>, value |-> "Bearer jwtToken"],
       [name |-> <<"Content-Type">>,  value |-> "application/json"],
       [name |-> <<"Origin">>,        value |-> "ORIGIN"],
       [name |-> <<"Referer">>,       value |-> "ORIGIN/chatHistoryId"] >>

RECURSIVE ObjAssign(_, _)
\* { ...obj, k1: v1, k2: v2, ... }
ObjAssign(obj, entries) ==
    IF entries = <<>> THEN obj
    ELSE ObjAssign(ObjSet(obj, Head(entries).name, Head(entries).value), Tail(entries))

\* const headers = { ...filteredClientHeaders, Authorization: ..., ... }
BuildTriggerHeaders(filteredClientHeaders) ==
    ObjAssign(filteredClientHeaders, MandatoryHeaders)

\* fetch(url, { headers }): the request's header list.  Names are matched
\* case-insensitively; every entry of the object is appended, so two keys
\* that differ only in case both contribute a value to the same header.
RequestHeaders(obj) ==
    [ n \in { ToLowerName(obj[i].name) : i \in 1..Len(obj) } |->
        LET same == SelectSeq(obj, LAMBDA e : ToLowerName(e.name) = n)
        IN  [i \in 1..Len(same) |-> same[i].value] ]

\* Header names a caller may send (as a Headers object iterates them: in
\* lower case, sorted by name) and the value sent with each
CallerNames ==
    << <<"authorization">>, <<"content-type">>, <<"cookie">>,
       <<"openai-", "beta">>, <<"openai-", "zzz">>, <<"origin">>,
       <<"x-", "custom">>, <<"x-openai-", "foo">>, <<"x-request-id">> >>

CallerValue(name) == << "caller", name >>

\* The entries of the Headers object holding the names at the positions in S
HeadersOf(S) ==
    LET picked == SelectSeq([i \in 1..Len(CallerNames) |-> i], LAMBDA i : i \in S)
    IN  [k \in 1..Len(picked) |->
            [name |-> CallerNames[picked[k]], value |-> CallerValue(CallerNames[picked[k]])]]

\* The header pipeline of one trigger call before it has started
HdrIdle(entries) ==
    [ client   |-> entries,   \* clientHeaders.entries()
      pos      |-> 1,         \* next entry of the for-of loop
      filtered |-> <<>>,      \* filterAllowedHeaders: filtered
      dropped  |-> <<>>,      \* filterAllowedHeaders: droppedHeaders
      stage    |-> "filter",  \* "filter" | "filtered" | "built" | "sent"
      headers  |-> <<>>,      \* the headers object given to fetch
      sent     |-> << >> ]    \* the header list of the request

\* ------------------------------------------------------------------------
\* State
\* ------------------------------------------------------------------------
VARIABLES
    hdr,         \* the header pipeline of the trigger call (see HdrIdle)
    resume,      \* streamChatGenerator suspended at a yield: what it does when resumed
    path,        \* "stream" (streamChatGenerator) or "aggregate" (nonStreamChat)
    pc,          \* position of the session
    wsState,     \* "none" | "connecting" | "open" | "closed"
    closeCalled, \* ws.close() was called by the session
    installed,   \* wsMessageIterator has set ws.onmessage/onclose/onerror
    queue,       \* wsMessageIterator: queue
    waiting,     \* wsMessageIterator: the consumer awaits the resolver promise
    iterDone,    \* wsMessageIterator: the generator left its loop
    trigger,     \* the POST: "none" | "inflight" | "ok" | "httpfail" | "netfail"
    sink,        \* receivedUpdate, lastBufferType, inThinkingBlock, modeByType, prevContentByType
    out,         \* stream path: everything the generator has yielded
    fullContent, \* aggregate path: fullContent
    result,      \* aggregate path: "pending" | "resolved" | "rejected"
    fired,       \* number of socket callbacks fired so far
    lost,        \* socket messages fired while no handler was installed
    arrived,     \* history: every event pushed on the queue, in order
    yielded      \* history: every event the iterator yielded, in order

vars == << hdr, resume, path, pc, wsState, closeCalled, installed, queue, waiting, iterDone,
           trigger, sink, out, fullContent, result, fired, lost, arrived, yielded >>

\* The generator is not suspended inside the consumption code
NotSuspended == [steps |-> <<>>, final |-> InitSink, then |-> "loop"]

InitSession ==
    /\ path \in {"stream", "aggregate"}
    /\ resume = NotSuspended
    /\ pc = "start"
    /\ wsState = "none"
    /\ closeCalled = FALSE
    /\ installed = FALSE
    /\ queue = <<>>
    /\ waiting = FALSE
    /\ iterDone = FALSE
    /\ trigger = "none"
    /\ sink = InitSink
    /\ out = <<>>
    /\ fullContent = <<>>
    /\ result = "pending"
    /\ fired = 0
    /\ lost = 0
    /\ arrived = <<>>
    /\ yielded = <<>>

\* A session whose caller sent no header
Init ==
    /\ InitSession
    /\ hdr = HdrIdle(<<>>)

\* ------------------------------------------------------------------------
\* Session start and socket open
\* ------------------------------------------------------------------------

\* streamChatGenerator: the priming frame, yielded before the socket exists
Prime ==
    /\ path = "stream" /\ pc = "start"
    /\ out' = Append(out, createSSEChunk(<<>>, "null"))
    /\ pc' = "primed"
    /\ UNCHANGED << hdr, resume, path, wsState, closeCalled, installed, queue, waiting, iterDone,
                    trigger, sink, fullContent, result, fired, lost, arrived, yielded >>

\* new WebSocket(wsUrl) and the wait for onopen / onerror
Connect ==
    /\ \/ path = "stream" /\ pc = "primed"
       \/ path = "aggregate" /\ pc = "start"
    /\ wsState' = "connecting"
    /\ pc' = "connecting"
    /\ UNCHANGED << hdr, resume, path, closeCalled, installed, queue, waiting, iterDone, trigger,
                    sink, out, fullContent, result, fired, lost, arrived, yielded >>

\* streamChatGenerator: onopen resolves; triggerChat() is started without being
\* awaited and the for-await calls wsMessageIterator, which installs its handlers.
OpenStream ==
    /\ path = "stream" /\ pc = "connecting"
    /\ wsState' = "open"
    /\ trigger' = "inflight"
    /\ installed' = TRUE
    /\ pc' = "loop"
    /\ UNCHANGED << hdr, resume, path, closeCalled, queue, waiting, iterDone, sink, out,
                    fullContent, result, fired, lost, arrived, yielded >>

\* nonStreamChat: onopen resolves; the POST is issued and awaited.
OpenAggregate ==
    /\ path = "aggregate" /\ pc = "connecting"
    /\ wsState' = "open"
    /\ trigger' = "inflight"
    /\ pc' = "awaitTrigger"
    /\ UNCHANGED << hdr, resume, path, closeCalled, installed, queue, waiting, iterDone, sink, out,
                    fullContent, result, fired, lost, arrived, yielded >>

\* A yield of streamChatGenerator: the frame is handed to the consumer and the
\* generator stays suspended at that yield until the consumer asks for the
\* next frame.  steps are the yields the straight-line code still has ahead
\* (frame, the locals as they are at that yield, whether ws.close() has run
\* by then); final are the locals once the code has passed the last of them
\* and then is where it goes: back to the for-await ("loop") or to its end.
Suspend(steps, final, then) ==
    /\ out' = Append(out, steps[1].frame)
    /\ sink' = steps[1].sink
    /\ closeCalled' = (closeCalled \/ steps[1].close)
    /\ iterDone' = (iterDone \/ steps[1].close)
    /\ pc' = "yield"
    /\ resume' = [steps |-> Tail(steps), final |-> final, then |-> then]

\* Variant: the outer catch yields the error frame but no sentinel.
CatchYields_NoSentinel(s) ==
    << [frame |-> createSSEChunk(ErrorText, "stop"), sink |-> s, close |-> FALSE] >>

\* The outer catch of streamChatGenerator: the error frame, then the sentinel
CatchYields(s) ==
    << [frame |-> createSSEChunk(ErrorText, "stop"), sink |-> s, close |-> FALSE],
       [frame |-> DoneSentinel, sink |-> s, close |-> FALSE] >>

\* ws.onerror before onopen: the open promise rejects and the outer catch
\* runs: streamChatGenerator yields the error frame, nonStreamChat rethrows.
OpenFail ==
    /\ pc = "connecting"
    /\ wsState' = "closed"
    /\ IF path = "stream"
       THEN /\ Suspend(CatchYields(sink), sink, "end")
            /\ UNCHANGED result
       ELSE /\ result' = "rejected"
            /\ pc' = "done"
            /\ UNCHANGED << out, sink, closeCalled, iterDone, resume >>
    /\ UNCHANGED << hdr, path, installed, queue, waiting, trigger,
                    fullContent, fired, lost, arrived, yielded >>

\* The session is running code: it is inside the for-await with an event to
\* take or an emptiness test to make.  Socket callbacks and the settling of
\* the trigger call are dispatched by the event loop only once the running
\* code has reached an await that is pending or a yield.
Running == pc = "loop" /\ ~waiting

\* ------------------------------------------------------------------------
\* The trigger call (POST /engine-agent/chat)
\* ------------------------------------------------------------------------

\* What the awaited fetch of nonStreamChat does once it has settled: a response
\* (any status) lets the function go on to wsMessageIterator; a network
\* failure throws into the outer catch.
AfterFetch(outcome) ==
    IF path = "aggregate"
    THEN /\ pc = "awaitTrigger"
         /\ IF outcome = "netfail"
            THEN /\ pc' = "done"
                 /\ result' = "rejected"
                 /\ UNCHANGED installed
            ELSE /\ pc' = "loop"
                 /\ installed' = TRUE
                 /\ UNCHANGED result
    ELSE UNCHANGED << pc, result, installed >>

\* resp.ok
TriggerOk ==
    /\ trigger = "inflight" /\ ~Running
    /\ trigger' = "ok"
    /\ AfterFetch("ok")
    /\ UNCHANGED << hdr, resume, path, wsState, closeCalled, queue, waiting, iterDone, sink, out,
                    fullContent, fired, lost, arrived, yielded >>

\* !resp.ok
TriggerHttpFail ==
    /\ trigger = "inflight" /\ ~Running
    /\ trigger' = "httpfail"
    /\ AfterFetch("httpfail")
    /\ UNCHANGED << hdr, resume, path, wsState, closeCalled, queue, waiting, iterDone, sink, out,
                    fullContent, fired, lost, arrived, yielded >>

\* fetch rejects
TriggerNetFail ==
    /\ trigger = "inflight" /\ ~Running
    /\ trigger' = "netfail"
    /\ AfterFetch("netfail")
    /\ UNCHANGED << hdr, resume, path, wsState, closeCalled, queue, waiting, iterDone, sink, out,
                    fullContent, fired, lost, arrived, yielded >>

\* ------------------------------------------------------------------------
\* Socket callbacks
\* ------------------------------------------------------------------------

\* Variant: the handlers put the item at the front of the queue.
Push_Front(item) ==
    IF installed
    THEN /\ queue' = <<item>> \o queue
         /\ arrived' = Append(arrived, item)
         /\ waiting' = FALSE
         /\ UNCHANGED lost
    ELSE /\ lost' = IF item.type = "message" THEN lost + 1 ELSE lost
         /\ UNCHANGED << queue, arrived, waiting >>

\* Variant: the handlers queue the item and do not call the resolver.
Push_NoWake(item) ==
    IF installed
    THEN /\ queue' = Append(queue, item)
         /\ arrived' = Append(arrived, item)
         /\ UNCHANGED waiting
         /\ UNCHANGED lost
    ELSE /\ lost' = IF item.type = "message" THEN lost + 1 ELSE lost
         /\ UNCHANGED << queue, arrived, waiting >>

\* The handlers of wsMessageIterator: queue.push(item); resolver?.()
Push(item) ==
    IF installed
    THEN /\ queue' = Append(queue, item)
         /\ arrived' = Append(arrived, item)
         /\ waiting' = FALSE
         /\ UNCHANGED lost
    ELSE /\ lost' = IF item.type = "message" THEN lost + 1 ELSE lost
         /\ UNCHANGED << queue, arrived, waiting >>

\* ws.onmessage fires with a frame of the set F, in a session of at most n
\* socket callbacks
SocketMessageOf(F, n) ==
    /\ wsState = "open" /\ ~closeCalled /\ fired < n /\ ~Running
    /\ \E d \in F : Push(MessageEvent(d))
    /\ fired' = fired + 1
    /\ UNCHANGED << hdr, resume, path, pc, wsState, closeCalled, installed, iterDone, trigger,
                    sink, out, fullContent, result, yielded >>

SocketMessage == SocketMessageOf(Frames, MaxEvents)

SocketError ==
    /\ wsState = "open" /\ ~closeCalled /\ fired < MaxEvents /\ ~Running
    /\ Push(ErrorEvent)
    /\ fired' = fired + 1
    /\ UNCHANGED << hdr, resume, path, pc, wsState, closeCalled, installed, iterDone, trigger,
                    sink, out, fullContent, result, yielded >>

SocketClose ==
    /\ wsState = "open" /\ ~Running
    /\ Push(CloseEvent)
    /\ wsState' = "closed"
    /\ UNCHANGED << hdr, resume, path, pc, closeCalled, installed, iterDone, trigger,
                    sink, out, fullContent, result, fired, yielded >>

\* ------------------------------------------------------------------------
\* wsMessageIterator and the consumption loops
\* ------------------------------------------------------------------------

\* queue.length === 0: await new Promise(resolve => resolver = resolve)
IterWait ==
    /\ pc = "loop" /\ ~waiting /\ queue = <<>>
    /\ waiting' = TRUE
    /\ UNCHANGED << hdr, resume, path, pc, wsState, closeCalled, installed, queue, iterDone,
                    trigger, sink, out, fullContent, result, fired, lost, arrived,
                    yielded >>

\* The locals of streamChatGenerator at the yield of one frame of a loop-body
\* pass that starts with locals s0 and ends with locals sF: at the yield of
\* "</think>" nothing but receivedUpdate has been assigned, at the yield of
\* "<think>" inThinkingBlock has been cleared as well, and the delta is
\* yielded after every assignment.
SinkAtYield(s0, sF, text) ==
    IF text = CloseMarker
    THEN [ sF EXCEPT !.inThinkingBlock   = s0.inThinkingBlock,
                     !.lastBufferType    = s0.lastBufferType,
                     !.modeByType        = s0.modeByType,
                     !.prevContentByType = s0.prevContentByType ]
    ELSE IF text = OpenMarker
    THEN [ sF EXCEPT !.inThinkingBlock   = FALSE,
                     !.lastBufferType    = s0.lastBufferType,
                     !.modeByType        = s0.modeByType,
                     !.prevContentByType = s0.prevContentByType ]
    ELSE sF

\* The yields of one pass of the loop body of streamChatGenerator
BodyYields(s0, sF) ==
    [ i \in 1..Len(sF.emitted) |->
        [ frame |-> createSSEChunk(sF.emitted[i], "null"),
          sink  |-> SinkAtYield(s0, sF, sF.emitted[i]),
          close |-> FALSE ] ]

\* Variant: the generator ends after the finish frame, without the sentinel.
EndYields_NoSentinel(s) ==
    << [frame |-> createSSEChunk(<<>>, "stop"), sink |-> s, close |-> TRUE] >>

\* streamChatGenerator after the loop: ws.close(), then the finish frame and
\* the sentinel
EndYields(s) ==
    << [frame |-> createSSEChunk(<<>>, "stop"), sink |-> s, close |-> TRUE],
       [frame |-> DoneSentinel, sink |-> s, close |-> TRUE] >>

\* nonStreamChat after the loop: ws.close(); return fullContent
Finish(text) ==
    /\ closeCalled' = TRUE
    /\ iterDone' = TRUE
    /\ pc' = "done"
    /\ fullContent' = fullContent \o text
    /\ result' = "resolved"
    /\ UNCHANGED << out, resume >>

\* The iterator yields a close or an error item; both loops break on it.
ConsumeTerminal ==
    /\ pc = "loop" /\ ~waiting /\ queue # <<>>
    /\ Head(queue).type \in {"close", "error"}
    /\ queue' = Tail(queue)
    /\ yielded' = Append(yielded, Head(queue))
    /\ IF path = "stream"
       THEN /\ Suspend(EndYields(sink), sink, "end")
            /\ UNCHANGED << fullContent, result >>
       ELSE /\ Finish(<<>>)
            /\ UNCHANGED sink
    /\ UNCHANGED << hdr, path, wsState, installed, waiting, trigger, fired, lost,
                    arrived >>

\* The iterator yields a message item and the loop body handles it.
ConsumeMessage ==
    /\ pc = "loop" /\ ~waiting /\ queue # <<>>
    /\ Head(queue).type = "message"
    /\ queue' = Tail(queue)
    /\ yielded' = Append(yielded, Head(queue))
    /\ IF path = "stream"
       THEN LET s     == StreamOnMessage(sink, Head(queue).data)
                steps == BodyYields(sink, s) \o (IF s.brk THEN EndYields(s) ELSE <<>>)
            IN  /\ IF steps # <<>>
                   THEN Suspend(steps, s, IF s.brk THEN "end" ELSE "loop")
                   ELSE /\ sink' = s
                        /\ UNCHANGED << out, pc, closeCalled, iterDone, resume >>
                /\ UNCHANGED << fullContent, result >>
       ELSE LET s == NonStreamOnMessage(sink, Head(queue).data)
            IN  /\ sink' = s
                /\ IF s.brk
                   THEN Finish(s.emitted)
                   ELSE /\ fullContent' = fullContent \o s.emitted
                        /\ UNCHANGED << out, pc, closeCalled, iterDone, result, resume >>
    /\ UNCHANGED << hdr, path, wsState, installed, waiting, trigger, fired, lost, arrived >>

\* The consumer asks streamChatGenerator for the next frame: the generator
\* runs on from the yield it is suspended at, to its next yield, back into
\* the for-await, or to its end.
Pull ==
    /\ path = "stream" /\ pc = "yield"
    /\ IF resume.steps # <<>>
       THEN Suspend(resume.steps, resume.final, resume.then)
       ELSE /\ sink' = resume.final
            /\ pc' = IF resume.then = "loop" THEN "loop" ELSE "done"
            /\ resume' = NotSuspended
            /\ UNCHANGED << out, closeCalled, iterDone >>
    /\ UNCHANGED << hdr, path, wsState, installed, queue, waiting, trigger,
                    fullContent, result, fired, lost, arrived, yielded >>

\* The consumer stops iterating (return() on the generator, as the for-await
\* of the response body does when the response is cancelled): the generator
\* ends at the yield it is suspended at; a for-await it is inside of returns
\* its iterator.  No statement after that yield runs.
Cancel ==
    /\ path = "stream" /\ pc \in {"primed", "yield"}
    /\ pc' = "cancelled"
    /\ resume' = NotSuspended
    /\ iterDone' = (iterDone \/ installed)
    /\ UNCHANGED << hdr, path, wsState, closeCalled, installed, queue, waiting, trigger,
                    sink, out, fullContent, result, fired, lost, arrived, yielded >>

Next ==
    \/ Prime
    \/ Connect
    \/ OpenStream
    \/ OpenAggregate
    \/ OpenFail
    \/ TriggerOk
    \/ TriggerHttpFail
    \/ TriggerNetFail
    \/ SocketMessage
    \/ SocketError
    \/ SocketClose
    \/ IterWait
    \/ ConsumeTerminal
    \/ ConsumeMessage
    \/ Pull
    \/ Cancel

Spec == Init /\ [][Next]_vars

\* ------------------------------------------------------------------------
\* The headers of the trigger call, as a function of the caller's headers
\* (triggerChat in streamChatGenerator, the same statements in nonStreamChat)
\* ------------------------------------------------------------------------
SessionVars == << resume, path, pc, wsState, closeCalled, installed, queue, waiting, iterDone,
                 trigger, sink, out, fullContent, result, fired, lost, arrived,
                 yielded >>

InitHeaders ==
    /\ InitSession
    /\ \E S \in SUBSET (1..Len(CallerNames)) : hdr = HdrIdle(HeadersOf(S))

\* filterAllowedHeaders: one pass of the for-of loop
FilterEntry ==
    /\ hdr.stage = "filter" /\ hdr.pos <= Len(hdr.client)
    /\ LET e == hdr.client[hdr.pos]
       IN  hdr' = IF isAllowedHeader(e.name)
                  THEN [hdr EXCEPT !.filtered = ObjSet(hdr.filtered, e.name, e.value),
                                   !.pos = hdr.pos + 1]
                  ELSE [hdr EXCEPT !.dropped = Append(hdr.dropped, e.name),
                                   !.pos = hdr.pos + 1]
    /\ UNCHANGED SessionVars

\* filterAllowedHeaders: the loop is over, filtered is returned
FilterReturn ==
    /\ hdr.stage = "filter" /\ hdr.pos > Len(hdr.client)
    /\ hdr' = [hdr EXCEPT !.stage = "filtered"]
    /\ UNCHANGED SessionVars

\* const headers = { ...filteredClientHeaders, <mandatory headers> }
BuildHeaders ==
    /\ hdr.stage = "filtered"
    /\ hdr' = [hdr EXCEPT !.headers = BuildTriggerHeaders(hdr.filtered),
                          !.stage = "built"]
    /\ UNCHANGED SessionVars

\* fetch(`${BASE_URL}/engine-agent/chat`, { method: "POST", headers, body })
SendTrigger ==
    /\ hdr.stage = "built"
    /\ hdr' = [hdr EXCEPT !.sent = RequestHeaders(hdr.headers), !.stage = "sent"]
    /\ UNCHANGED SessionVars

NextHeaders ==
    \/ FilterEntry
    \/ FilterReturn
    \/ BuildHeaders
    \/ SendTrigger

SpecHeaders == InitHeaders /\ [][NextHeaders]_vars

\* ------------------------------------------------------------------------
\* Helpers for the properties
\* ------------------------------------------------------------------------
RECURSIVE Concat(_)
Concat(ss) == IF ss = <<>> THEN <<>> ELSE Head(ss) \o Concat(Tail(ss))

RECURSIVE Count(_, _)
Count(s, x) == IF s = <<>> THEN 0
               ELSE (IF Head(s) = x THEN 1 ELSE 0) + Count(Tail(s), x)

\* The contents of the frames the generator has yielded, in order
OutContents == [i \in 1..Len(out) |-> out[i].content]

PrimingFrame == createSSEChunk(<<>>, "null")
FinishFrame  == createSSEChunk(<<>>, "stop")

\* The session left its consumption loop (as opposed to failing before it)
\* and ran to its end
LoopEnded == pc = "done" /\ iterDone

\* The consumer of the stream gave up before the generator reached its end
Cancelled == pc = "cancelled"

\* The loop has been left by a break, or the generator is suspended at the
\* yield of the close marker with the break as its next statement
Leaving == iterDone \/ (pc = "yield" /\ resume.then = "end")

\* The locals of the sink as they are once the pass of the loop body that is
\* under way has completed
Locals == IF pc = "yield" THEN resume.final ELSE sink

\* Text produced so far by the session's sink
Produced == IF path = "stream" THEN Concat(OutContents) ELSE fullContent

LastYielded == yielded[Len(yielded)]

IsUpdate(e)   == e.type = "message" /\ e.data.type = "update"
IsTerminal(e) == e.type \in {"close", "error"}
IsStaleOrFinalState(e) ==
    e.type = "message" /\ e.data.type = "state" /\ ~e.data.inProgress

\* ------------------------------------------------------------------------
\* C1  Every session that leaves its loop has emitted as many "<think>" as
\*     "</think>" markers.  (Stated as the claim states it; the code breaks
\*     out of the loop on a close or error event without closing the block.)
\* ------------------------------------------------------------------------
C1_MarkersBalanced ==
    LoopEnded =>
        IF path = "stream"
        THEN Count(OutContents, OpenMarker) = Count(OutContents, CloseMarker)
        ELSE Count(fullContent, "<think>") = Count(fullContent, "</think>")

\* ------------------------------------------------------------------------
\* C2  Shape of the event stream: priming frame first (present before the
\*     socket exists), then non-empty content frames, then one frame with
\*     finish reason "stop", then the sentinel, last; a finished generator
\*     has yielded the sentinel.
\* ------------------------------------------------------------------------
C2_StreamShape ==
    path = "stream" =>
        /\ (wsState # "none" \/ pc # "start") => (Len(out) >= 1 /\ out[1] = PrimingFrame)
        /\ \A i \in 2..Len(out) :
              /\ out[i].kind = "done" =>
                    i = Len(out) /\ out[i-1].kind = "chunk" /\ out[i-1].finish = "stop"
              /\ (out[i].kind = "chunk" /\ out[i].finish = "stop") =>
                    /\ i >= Len(out) - 1
                    /\ i = Len(out) - 1 => out[i+1] = DoneSentinel
              /\ (out[i].kind = "chunk" /\ out[i].finish = "null") =>
                    out[i].content # <<>>
        /\ pc = "done" => (Len(out) >= 3 /\ out[Len(out)] = DoneSentinel)
        /\ pc \in {"start", "primed", "connecting", "loop"} =>
              \A i \in 1..Len(out) : out[i].kind = "chunk" /\ out[i].finish = "null"

C2_Witness ==
    /\ path = "stream" /\ LoopEnded
    /\ Len(out) >= 5

\* ------------------------------------------------------------------------
\* C3  A state event with inProgress=false ends the session iff an update
\*     event was consumed before it; a close or error event always ends it;
\*     nothing else does.
\* ------------------------------------------------------------------------
UpdateSeenBefore(n) == \E i \in 1..(n - 1) : IsUpdate(yielded[i])

C3_Termination ==
    ~Cancelled =>
        /\ yielded = <<>> => ~iterDone
        /\ yielded # <<>> =>
             ( Leaving <=>
                 \/ IsTerminal(LastYielded)
                 \/ IsStaleOrFinalState(LastYielded) /\ UpdateSeenBefore(Len(yielded)) )
        /\ iterDone => pc \in {"yield", "done"}
        /\ (pc = "done" /\ yielded # <<>>) => iterDone

C3_Witness ==
    /\ pc = "loop" /\ Len(yielded) = 2
    /\ IsStaleOrFinalState(yielded[1]) /\ IsStaleOrFinalState(yielded[2])

\* ------------------------------------------------------------------------
\* Sessions that have consumed nothing but "chat" updates
\* ------------------------------------------------------------------------
ChatOnly ==
    \A i \in 1..Len(yielded) :
        IsUpdate(yielded[i]) /\ yielded[i].data.btype = "chat"

RawContents == [i \in 1..Len(yielded) |-> yielded[i].data.content]

\* each content is a strictly longer prefix-extension of the one before it
Growing ==
    \A i \in 1..(Len(yielded) - 1) :
        /\ Len(RawContents[i]) < Len(RawContents[i+1])
        /\ StartsWith(RawContents[i+1], RawContents[i])

NonEmptyContents == \A i \in 1..Len(yielded) : RawContents[i] # <<>>

\* The text of the delta frames (stream) / of fullContent (aggregate); a
\* chat-only session emits no marker and no finish frame.
EmittedDeltas == Produced

\* ------------------------------------------------------------------------
\* C4 as stated: for at least two chat updates with strictly growing,
\*     prefix-extending contents the chat mode is snapshot from the second
\*     update on and the emitted deltas concatenate to the last content.
\*     Fails when the first content is empty: that update is ignored, so the
\*     next one is the first recorded content and the mode stays undetermined.
\* ------------------------------------------------------------------------
C4_AsStated ==
    (ChatOnly /\ Len(yielded) >= 2 /\ Growing) =>
        /\ sink.modeByType["chat"] = "snapshot"
        /\ EmittedDeltas = RawContents[Len(yielded)]

\* C4 (amended): for at least two NON-EMPTY chat updates with strictly
\*     growing, prefix-extending contents the chat mode is snapshot from the
\*     second update on and the emitted deltas concatenate to the last content.
C4_SnapshotExact ==
    (ChatOnly /\ Len(yielded) >= 2 /\ Growing /\ NonEmptyContents) =>
        /\ sink.modeByType["chat"] = "snapshot"
        /\ EmittedDeltas = RawContents[Len(yielded)]

C4_Witness ==
    /\ ChatOnly /\ Len(yielded) = 3 /\ Growing /\ NonEmptyContents
    /\ sink.modeByType["chat"] = "snapshot"

\* ------------------------------------------------------------------------
\* C5  For non-empty chat updates whose second content does not start with
\*     the first, the chat mode is delta from the second update on (also
\*     when a later content starts with the accumulated previous content)
\*     and the emitted deltas concatenate to the raw contents.
\* ------------------------------------------------------------------------
C5_DeltaExact ==
    ( /\ ChatOnly /\ Len(yielded) >= 2 /\ NonEmptyContents
      /\ ~StartsWith(RawContents[2], RawContents[1]) ) =>
        /\ sink.modeByType["chat"] = "delta"
        /\ EmittedDeltas = Concat(RawContents)

\* a, b, ab: the third content equals the accumulated previous content
C5_Witness ==
    /\ ChatOnly /\ Len(yielded) = 3
    /\ RawContents = << <<"a">>, <<"b">>, <<"a", "b">> >>
    /\ sink.prevContentByType["chat"] = <<"a", "b", "a", "b">>

\* ------------------------------------------------------------------------
\* The two loops run as functions of the consumed event sequence
\* ------------------------------------------------------------------------
RECURSIVE StreamRun(_, _, _)
\* streamChatGenerator's for-await loop: the contents of the frames yielded
\* between the priming frame and the finish frame
StreamRun(s, events, frames) ==
    IF events = <<>> \/ s.brk THEN frames
    ELSE IF Head(events).type \in {"close", "error"} THEN frames
    ELSE LET s1 == StreamOnMessage(s, Head(events).data)
         IN  StreamRun(s1, Tail(events), frames \o s1.emitted)

RECURSIVE NonStreamRun(_, _, _)
\* nonStreamChat's for-await loop: fullContent
NonStreamRun(s, events, text) ==
    IF events = <<>> \/ s.brk THEN text
    ELSE IF Head(events).type \in {"close", "error"} THEN text
    ELSE LET s1 == NonStreamOnMessage(s, Head(events).data)
         IN  NonStreamRun(s1, Tail(events), text \o s1.emitted)

\* Contents of the frames strictly between the priming and the finish frame
DeltaAndMarkerFrames ==
    LET plain == SelectSeq(out, LAMBDA f : f.kind = "chunk" /\ f.finish = "null")
    IN  [i \in 1..(Len(plain) - 1) |-> plain[i + 1].content]

\* ------------------------------------------------------------------------
\* C6  On the same consumed event sequence, the string nonStreamChat builds
\*     equals the concatenation of the delta and marker frames
\*     streamChatGenerator emits.
\* ------------------------------------------------------------------------
C6_RoundTrip ==
    pc \in {"loop", "done"} =>
        IF path = "stream"
        THEN Concat(DeltaAndMarkerFrames) = NonStreamRun(InitSink, yielded, <<>>)
        ELSE fullContent = Concat(StreamRun(InitSink, yielded, <<>>))

C6_Witness ==
    /\ LoopEnded /\ Len(yielded) = 3
    /\ Count(Produced, "<think>") = 1 /\ Count(Produced, "</think>") = 1
    /\ IsStaleOrFinalState(LastYielded)

\* ------------------------------------------------------------------------
\* C7  wsMessageIterator yields the queued events in arrival order, each
\*     once, up to and including the first close/error event, and nothing
\*     queued after that event.
\* ------------------------------------------------------------------------
\* Position of the first close/error item of s at or after i; Len(s) + 1
\* when there is none
RECURSIVE FirstTerminalFrom(_, _)
FirstTerminalFrom(s, i) ==
    IF i > Len(s) \/ IsTerminal(s[i]) THEN i ELSE FirstTerminalFrom(s, i + 1)

FirstTerminal(s) == FirstTerminalFrom(s, 1)

C7_IteratorOrder ==
    LET first == FirstTerminal(arrived)
    IN  /\ yielded \o queue = arrived
        /\ Len(yielded) <= first
        /\ \A i \in 1..Len(yielded) :
              IsTerminal(yielded[i]) => (i = Len(yielded) /\ iterDone)
        /\ (iterDone /\ yielded # <<>> /\ IsTerminal(LastYielded)) =>
              Len(yielded) = first

C7_Witness ==
    /\ iterDone /\ Len(yielded) = 2 /\ IsTerminal(LastYielded)
    /\ Len(arrived) = 4

\* ------------------------------------------------------------------------
\* C8  nonStreamChat ends as a rejected result when the socket errors or
\*     closes during consumption.  (Stated as the claim states it; the code
\*     breaks out of the loop and returns fullContent.)
\* ------------------------------------------------------------------------
C8_AggregateRejectsOnSocketFailure ==
    (path = "aggregate" /\ LoopEnded /\ IsTerminal(LastYielded)) => result = "rejected"

\* ------------------------------------------------------------------------
\* C9  A failed trigger call (non-success response or network failure) is
\*     not fatal: the session enters the consumption loop, and no error
\*     frame or rejected result comes from it.  (Stated as the claim states
\*     it; nonStreamChat awaits fetch inside its outer try.)
\* ------------------------------------------------------------------------
C9_TriggerFailureNotFatal ==
    trigger \in {"httpfail", "netfail"} =>
        /\ installed
        /\ result # "rejected"
        /\ \A i \in 1..Len(out) : out[i].content # ErrorText

\* ------------------------------------------------------------------------
\* C10 as stated: a stream session that fails (the socket errors before it
\*     opens) ends with an error-content frame, then the finish frame, then
\*     the sentinel, and never issued the trigger call.
\* ------------------------------------------------------------------------
StreamFailed == path = "stream" /\ pc = "done" /\ ~iterDone

C10_AsStated ==
    StreamFailed =>
        /\ out = << PrimingFrame, createSSEChunk(ErrorText, "null"), FinishFrame,
                    DoneSentinel >>
        /\ trigger = "none"

\* C10 (amended): such a session ends with ONE frame that carries both the
\*     failure text and finish reason "stop", then the sentinel; the trigger
\*     call was never issued and no socket handler was installed.
C10_ErrorFrame ==
    StreamFailed =>
        /\ out = << PrimingFrame, createSSEChunk(ErrorText, "stop"), DoneSentinel >>
        /\ trigger = "none"
        /\ ~installed

C10_Witness == StreamFailed /\ wsState = "closed" /\ Len(out) = 3

\* ------------------------------------------------------------------------
\* C11 The trigger request carries, for every server-mandated header name
\*     (Authorization, Content-Type, Origin, Referer; names compared
\*     case-insensitively), the server-mandated value and nothing else.
\*     (Stated as the claim states it; the object spread keeps the caller's
\*     lower-case key next to the capitalised mandatory key.)
\* ------------------------------------------------------------------------
C11_MandatoryHeadersWin ==
    hdr.stage = "sent" =>
        \A i \in 1..Len(MandatoryHeaders) :
            hdr.sent[ToLowerName(MandatoryHeaders[i].name)] = << MandatoryHeaders[i].value >>

\* ------------------------------------------------------------------------
\* C12 filterAllowedHeaders returns exactly the caller's headers whose
\*     lower-cased name is in the fixed allow-list or starts with "openai-"
\*     or "x-openai-", each with its value, in the caller's order; the
\*     other names, and only they, are dropped.
\* ------------------------------------------------------------------------
MayForward(e) ==
    \/ ToLowerName(e.name) \in ALLOWED_HEADER_NAMES
    \/ Head(ToLowerName(e.name)) \in {"openai-", "x-openai-"}

C12_FilterExact ==
    LET seen == SubSeq(hdr.client, 1, hdr.pos - 1)
        rest == SelectSeq(seen, LAMBDA e : ~MayForward(e))
    IN  /\ hdr.filtered = SelectSeq(seen, MayForward)
        /\ hdr.dropped = [i \in 1..Len(rest) |-> rest[i].name]
        /\ hdr.stage # "filter" => hdr.pos = Len(hdr.client) + 1

C12_Witness ==
    /\ hdr.stage = "filtered"
    /\ Len(hdr.filtered) = 3 /\ Len(hdr.dropped) = 2
    /\ \E i \in 1..3 : hdr.filtered[i].name = <<"x-openai-", "foo">>
    /\ \E i \in 1..3 : hdr.filtered[i].name = <<"openai-", "zzz">>

\* ------------------------------------------------------------------------
\* The non-empty contents of one segment type, in the order consumed
\* ------------------------------------------------------------------------
IsContentOf(e, t) ==
    IsUpdate(e) /\ e.data.btype = t /\ e.data.content # <<>>

ContentsConsumed(t) ==
    LET es == SelectSeq(yielded, LAMBDA e : IsContentOf(e, t))
    IN  [i \in 1..Len(es) |-> es[i].data.content]

\* ------------------------------------------------------------------------
\* C13 For each segment type the mode is undetermined until the second
\*     non-empty content of that type, is then snapshot or delta according
\*     to whether that content starts with the first, and stays what it was
\*     set to whatever arrives later.
\* ------------------------------------------------------------------------
C13_ModeSetOnce ==
    \A t \in Types :
        LET cs == ContentsConsumed(t)
        IN  ~Cancelled =>
              Locals.modeByType[t] =
                IF Len(cs) < 2 THEN "none"
                ELSE IF StartsWith(cs[2], cs[1]) THEN "snapshot" ELSE "delta"

\* a, ab, b: the third content does not continue the second
C13_Witness ==
    /\ ContentsConsumed("chat") = << <<"a">>, <<"a", "b">>, <<"b">> >>
    /\ sink.modeByType["chat"] = "snapshot"
    /\ sink.modeByType["thinking"] = "none"

\* ------------------------------------------------------------------------
\* C14 Under snapshot mode the recorded previousContent only grows: every
\*     step leaves, for each type in snapshot mode, a previousContent that
\*     starts with the one recorded before the step.  (Stated as the claim
\*     states it; the code stores whatever content arrives.)
\* ------------------------------------------------------------------------
C14_SnapshotPrevGrows ==
    [][ \A t \in Types :
          sink.modeByType[t] = "snapshot" =>
              StartsWith(sink'.prevContentByType[t], sink.prevContentByType[t]) ]_vars

\* ------------------------------------------------------------------------
\* C15 Consuming an update event with empty (or absent) content emits
\*     nothing and leaves modeByType, prevContentByType, lastBufferType and
\*     inThinkingBlock as they were, also when its type differs from
\*     lastBufferType.
\* ------------------------------------------------------------------------
C15_EmptyUpdateIsInert ==
    [][ ( /\ Len(yielded') = Len(yielded) + 1
          /\ IsUpdate(yielded'[Len(yielded')])
          /\ yielded'[Len(yielded')].data.content = <<>> ) =>
        ( /\ sink'.modeByType = sink.modeByType
          /\ sink'.prevContentByType = sink.prevContentByType
          /\ sink'.lastBufferType = sink.lastBufferType
          /\ sink'.inThinkingBlock = sink.inThinkingBlock
          /\ out' = out
          /\ fullContent' = fullContent ) ]_vars

\* an empty chat update was consumed inside a thinking block
C15_Witness ==
    /\ pc = "loop" /\ Len(yielded) = 2
    /\ LastYielded = MessageEvent(Frame("update", "chat", <<>>, FALSE))
    /\ sink.lastBufferType = "thinking" /\ sink.inThinkingBlock

\* ------------------------------------------------------------------------
\* C16 When the non-empty updates consumed are a run of chat, then a run of
\*     thinking, then a run of chat, the output is: the deltas of the first
\*     run, one open marker, the thinking deltas, one close marker, the
\*     deltas of the second chat run - and no other marker.
\* ------------------------------------------------------------------------
ContentUpdates ==
    SelectSeq(yielded, LAMBDA e : IsContentOf(e, "chat") \/ IsContentOf(e, "thinking"))

\* Length of the longest run of type t in cu that starts after position from
RECURSIVE RunEnd(_, _, _)
RunEnd(cu, from, t) ==
    IF from < Len(cu) /\ cu[from + 1].data.btype = t
    THEN RunEnd(cu, from + 1, t) ELSE from

\* lengths of the first chat run and of the first two runs together
Run1 == RunEnd(ContentUpdates, 0, "chat")
Run2 == RunEnd(ContentUpdates, Run1, "thinking")

ChatThinkingChat ==
    LET cu == ContentUpdates
        r1 == RunEnd(cu, 0, "chat")
        r2 == RunEnd(cu, r1, "thinking")
    IN  /\ Len(cu) >= 3
        /\ 1 <= r1 /\ r1 < r2 /\ r2 < Len(cu)
        /\ RunEnd(cu, r2, "chat") = Len(cu)

\* The incremental text of the k-th non-empty update, from the contents of
\* its own type: the first content whole; later ones cut by the length of the
\* one before when the second content continued the first, whole otherwise.
DeltaAt(cu, k) ==
    LET t  == cu[k].data.btype
        m  == Cardinality({ x \in 1..k : cu[x].data.btype = t })
        cs == ContentsConsumed(t)
    IN  IF m = 1 THEN cs[1]
        ELSE IF StartsWith(cs[2], cs[1]) THEN Slice(cs[m], Len(cs[m-1]))
        ELSE cs[m]

BracketedFrames ==
    LET cu == ContentUpdates
        r1 == Run1
        r2 == Run2
    IN  Concat([ k \in 1..Len(cu) |->
                   LET d == DeltaAt(cu, k)
                   IN  (IF k = r1 + 1 THEN <<OpenMarker>>
                        ELSE IF k = r2 + 1 THEN <<CloseMarker>> ELSE <<>>)
                       \o (IF d # <<>> THEN <<d>> ELSE <<>>) ])

C16_OneBalancedBlock ==
    (pc \in {"loop", "done"} /\ Len(yielded) >= 3 /\ ChatThinkingChat) =>
        IF path = "stream"
        THEN DeltaAndMarkerFrames = BracketedFrames
        ELSE fullContent = Concat(BracketedFrames)

C16_Witness ==
    /\ ChatThinkingChat /\ LoopEnded
    /\ Count(Produced, "<think>") = 1 /\ Count(Produced, "</think>") = 1

\* ------------------------------------------------------------------------
\* Malformed messages
\* ------------------------------------------------------------------------
IsOuterMalformed(e)  == e.type = "message" /\ e.data.type = "malformed"
IsNestedMalformed(e) == IsUpdate(e) /\ e.data.btype = "malformed"

\* The session has handled everything queued for it
Settled == (pc = "loop" /\ queue = <<>>) \/ LoopEnded

\* What the session's sink has produced / would produce on a sequence of
\* queued events: the delta and marker frames (stream), the text (aggregate)
Actual == IF path = "stream" THEN DeltaAndMarkerFrames ELSE fullContent

OutputOn(events) ==
    IF path = "stream" THEN StreamRun(InitSink, events, <<>>)
    ELSE NonStreamRun(InitSink, events, <<>>)

\* Whether the session's loop, run on a sequence of queued events, is left by
\* a break
RECURSIVE RunBreaks(_, _)
RunBreaks(s, events) ==
    IF events = <<>> THEN FALSE
    ELSE IF Head(events).type \in {"close", "error"} THEN TRUE
    ELSE LET s1 == IF path = "stream"
                   THEN StreamOnMessage(s, Head(events).data)
                   ELSE NonStreamOnMessage(s, Head(events).data)
         IN  s1.brk \/ RunBreaks(s1, Tail(events))

EndsOn(events) == RunBreaks(InitSink, events)

\* ------------------------------------------------------------------------
\* C17 as stated: a message malformed at the outer or at the nested layer is
\*     skipped, and the session produces what it would have produced had the
\*     malformed messages not arrived.  Fails for the nested layer: the
\*     outer frame is an update, receivedUpdate is set before the buffer is
\*     parsed, and a later state inProgress=false then ends the session.
\* ------------------------------------------------------------------------
C17_AsStated ==
    Settled =>
        LET kept == SelectSeq(arrived,
                        LAMBDA e : ~IsOuterMalformed(e) /\ ~IsNestedMalformed(e))
        IN  /\ Actual = OutputOn(kept)
            /\ LoopEnded <=> EndsOn(kept)

\* C17 (amended): a malformed message emits no frame, does not end the
\*     session and raises no failure.  One malformed at the outer layer
\*     leaves the session as if it had not arrived; one malformed only at
\*     the nested layer counts as an update event without content (it sets
\*     receivedUpdate, so a later state inProgress=false ends the session)
\*     and changes nothing else.
AsContentless(e) ==
    IF IsNestedMalformed(e) THEN MessageEvent(Frame("update", "other", <<>>, FALSE)) ELSE e

C17_MalformedSkipped ==
    /\ Settled =>
         LET kept == SelectSeq(arrived, LAMBDA e : ~IsOuterMalformed(e))
             same == [i \in 1..Len(kept) |-> AsContentless(kept[i])]
         IN  /\ Actual = OutputOn(same)
             /\ LoopEnded <=> EndsOn(same)
    /\ (iterDone /\ yielded # <<>>) =>
         ~IsOuterMalformed(LastYielded) /\ ~IsNestedMalformed(LastYielded)
    /\ pc = "done" /\ ~iterDone => yielded = <<>>

\* an outer-malformed message, then an update, then the state event that ends
\* the session
C17_Witness ==
    /\ LoopEnded /\ Len(yielded) = 3
    /\ IsOuterMalformed(yielded[1])
    /\ IsContentOf(yielded[2], "thinking")
    /\ IsStaleOrFinalState(yielded[3])

\* ------------------------------------------------------------------------
\* C18 A session whose socket has closed is never blocked: it has ended or
\*     it can take a step.  (Stated as the claim states it; nonStreamChat
\*     installs the socket handlers only after the awaited trigger call, so
\*     a close during that call is seen by no handler.)
\* ------------------------------------------------------------------------
C18_CloseUnblocks ==
    (wsState = "closed" /\ pc \notin {"done", "cancelled"}) => ENABLED Next

\* ------------------------------------------------------------------------
\* C19 as stated: a state event with inProgress=false ends the session only
\*     if an update that carried content was consumed before it.
\* ------------------------------------------------------------------------
C19_AsStated ==
    (LoopEnded /\ yielded # <<>> /\ IsStaleOrFinalState(LastYielded)) =>
        \E i \in 1..(Len(yielded) - 1) :
            IsContentOf(yielded[i], "chat") \/ IsContentOf(yielded[i], "thinking")

\* C19 (amended): receivedUpdate is set by every update event, with or
\*     without content; a state event with inProgress=false ends the
\*     session iff some update event, of any kind, was consumed before it.
C19_AnyUpdateArms ==
    /\ sink.receivedUpdate <=> \E i \in 1..Len(yielded) : IsUpdate(yielded[i])
    /\ ~Cancelled =>
         \A n \in 1..Len(yielded) :
            IsStaleOrFinalState(yielded[n]) =>
               ( (n = Len(yielded) /\ Leaving) <=> UpdateSeenBefore(n) )

\* an empty chat update, then the state event: the session ends with no text
C19_Witness ==
    /\ LoopEnded /\ Len(yielded) = 2
    /\ yielded[1] = MessageEvent(Frame("update", "chat", <<>>, FALSE))
    /\ IsStaleOrFinalState(yielded[2])
    /\ Produced = <<>>

\* ------------------------------------------------------------------------
\* C20 No message the socket delivers after it opened is lost.  (Stated as
\*     the claim states it; on the aggregate path messages that arrive
\*     during the awaited trigger call find ws.onmessage unset.)
\* ------------------------------------------------------------------------
C20_NoMessageLost == lost = 0


\* ------------------------------------------------------------------------
\* The session under a fair scheduler: the consumer of wsMessageIterator
\* resumes whenever it can (the event loop runs every ready continuation).
\* The iterator never reads the payload of a message, so the socket delivers
\* one content update and the two state events.
\* ------------------------------------------------------------------------
IterFrames == { Frame("update", "chat", <<"a">>, FALSE) } \cup StateFrames

IterSocketMessage == SocketMessageOf(IterFrames, MaxEvents)

NextIter ==
    \/ Prime
    \/ Connect
    \/ OpenStream
    \/ OpenAggregate
    \/ OpenFail
    \/ TriggerOk
    \/ TriggerHttpFail
    \/ TriggerNetFail
    \/ IterSocketMessage
    \/ SocketError
    \/ SocketClose
    \/ IterWait
    \/ ConsumeTerminal
    \/ ConsumeMessage
    \/ Pull
    \/ Cancel

SpecIter ==
    /\ Init
    /\ [][NextIter]_vars
    /\ WF_vars(IterWait)
    /\ WF_vars(ConsumeTerminal)
    /\ WF_vars(ConsumeMessage)
    /\ WF_vars(Pull)

\* ------------------------------------------------------------------------
\* C21 No lost wake-up in wsMessageIterator: the consumer never waits while
\*     the queue is non-empty; every queued event up to the first close/error
\*     event is eventually yielded for as long as the consumer iterates; a
\*     callback that fires while the consumer is not waiting only enqueues
\*     its event.
\* ------------------------------------------------------------------------
NeverWaitsOnNonEmptyQueue == waiting => (queue = <<>> /\ pc = "loop")

CallbackOnlyEnqueues ==
    (arrived' # arrived /\ ~waiting) =>
        /\ queue' = Append(queue, arrived'[Len(arrived')])
        /\ UNCHANGED << pc, waiting, iterDone, yielded, sink, out, fullContent,
                        result, closeCalled >>

EventuallyYielded ==
    \A i \in 1..(MaxEvents + 1) :
        (Len(arrived) >= i /\ i <= FirstTerminal(arrived))
            ~> (Len(yielded) >= i \/ iterDone)

C21_NoLostWakeup ==
    /\ []NeverWaitsOnNonEmptyQueue
    /\ [][CallbackOnlyEnqueues]_vars
    /\ EventuallyYielded

\* the consumer has yielded an event and two more are queued: the second of
\* them was pushed while no waiter was outstanding
C21_Witness ==
    /\ pc = "loop" /\ ~waiting
    /\ Len(yielded) >= 1 /\ Len(queue) >= 2


\* ------------------------------------------------------------------------
\* C22 A finished session whose socket reached the open state has called
\*     close on it.  (Stated as the claim states it; the trigger call is
\*     started exactly when the socket opens, so trigger # "none" marks the
\*     sessions whose socket opened.  nonStreamChat awaits the trigger call
\*     with no handler of its own, and its outer catch rethrows without
\*     closing the socket.)
\* ------------------------------------------------------------------------
C22_SocketClosedAtEnd ==
    (pc = "done" /\ trigger # "none") => closeCalled


\* ------------------------------------------------------------------------
\* The stream and the aggregate session on the updates that open and close
\* thinking blocks: up to MaxBlockEvents messages, drawn from updates of both
\* segment types, a thinking snapshot that grows, and the state event that
\* ends the session.
\* ------------------------------------------------------------------------
MaxBlockEvents == 4

FramerFrames == { Frame("update", "thinking", <<"a">>, FALSE),
                  Frame("update", "thinking", <<"a", "b">>, FALSE),
                  Frame("update", "chat", <<"a">>, FALSE),
                  Frame("state", "-", <<>>, FALSE) }

FramerSocketMessage == SocketMessageOf(FramerFrames, MaxBlockEvents)

NextFramer ==
    \/ Prime
    \/ Connect
    \/ OpenStream
    \/ OpenAggregate
    \/ TriggerOk
    \/ FramerSocketMessage
    \/ IterWait
    \/ ConsumeMessage
    \/ Pull

SpecFramer == Init /\ [][NextFramer]_vars

\* ------------------------------------------------------------------------
\* C23 No empty thinking block is emitted: in the text either sink produces,
\*     no open marker is directly followed by a close marker.  (Stated as
\*     the claim states it; the open marker is emitted on the type switch
\*     before the content is reconciled, and a thinking update that repeats
\*     the recorded snapshot reconciles to an empty delta.)
\* ------------------------------------------------------------------------
C23_NoEmptyThinkingBlock ==
    \A i \in 1..(Len(Produced) - 1) :
        ~(Produced[i] = "<think>" /\ Produced[i + 1] = "</think>")

=============================================================================
